---- MODULE Spec2Model ----
(***************************************************************************)
(* Model of server.go: the CSV row flattener (buildNestedDict) and the two *)
(* batch commands built on it (validate, create).                          *)
(*                                                                         *)
(* Strings.  A Go string is modelled as the sequence of its pieces, where  *)
(* every "." and every "," is a piece of its own and the text between two  *)
(* separators is one piece: "a.b" is <<"a", ".", "b">>, "" is <<>>.        *)
(* strings.Split works on that sequence exactly as on the characters.      *)
(*                                                                         *)
(* Maps.  A map[string]interface{} tree is modelled as a function from key *)
(* paths to nodes: the path <<k1, ..., kn>> is the value reached by        *)
(* dict[k1][k2]...[kn].  The top-level map itself is the empty path and is *)
(* not stored.  A node is a nested map, a string or a list of strings.     *)
(***************************************************************************)
EXTENDS Integers, Sequences, FiniteSets, TLC

VARIABLES headers, row, payload, panicked,
          pc, rowNum, rowsRead, successfulResults, validationErrors,
          inflight, requests, responses, resultsFile, errorsFile,
          entries, ci, createResults, createFile

runVars == <<pc, rowNum, rowsRead, successfulResults, validationErrors,
             inflight, requests, responses, resultsFile, errorsFile,
             entries, ci, createResults, createFile>>
vars == <<headers, row, payload, panicked,
          pc, rowNum, rowsRead, successfulResults, validationErrors,
          inflight, requests, responses, resultsFile, errorsFile,
          entries, ci, createResults, createFile>>

---------------------------------------------------------------------------
(* Bounds of the model *)

\* columns of the CSV handed to the flattener
MaxCols == 3
\* data rows of the CSV handed to validate
MaxRows == 2

---------------------------------------------------------------------------
(* Strings *)

Dot == "."
Comma == ","

IndexOf(s, sep) ==
  IF \E k \in 1..Len(s) : s[k] = sep
  THEN CHOOSE k \in 1..Len(s) : s[k] = sep /\ \A j \in 1..(k - 1) : s[j] # sep
  ELSE 0

\* strings.Split(s, sep) for a one-character separator
RECURSIVE Split(_, _)
Split(s, sep) ==
  LET k == IndexOf(s, sep) IN
  IF k = 0 THEN <<s>>
  ELSE <<SubSeq(s, 1, k - 1)>> \o Split(SubSeq(s, k + 1, Len(s)), sep)

payment_methods == <<"payment_methods">>
transfer_methods == <<"transfer_methods">>

---------------------------------------------------------------------------
(* map[string]interface{} trees *)

MapNode == [kind |-> "map", str |-> <<>>, list |-> <<>>]
StringNode(s) == [kind |-> "string", str |-> s, list |-> <<>>]
ListNode(l) == [kind |-> "list", str |-> <<>>, list |-> l]

EmptyDict == [p \in {} |-> MapNode]

IsPrefix(p, q) == Len(p) <= Len(q) /\ SubSeq(q, 1, Len(p)) = p

\* current[part] = node, where p is the path of current extended by part:
\* whatever was stored under that key (with everything below it) is replaced
Assign(dict, p, node) ==
  [q \in {r \in DOMAIN dict : ~IsPrefix(p, r)} \cup {p} |->
     IF q = p THEN node ELSE dict[q]]

\* the for loop of buildNestedDict from index i on; current is the path of
\* the map the loop variable current points to
RECURSIVE Walk(_, _, _, _, _)
Walk(dict, current, parts, i, value) ==
  LET p == Append(current, parts[i]) IN
  IF i = Len(parts)
  THEN [dict |-> IF value # <<>> THEN Assign(dict, p, StringNode(value)) ELSE dict,
        panic |-> FALSE]
  ELSE LET d == IF p \notin DOMAIN dict THEN Assign(dict, p, MapNode) ELSE dict IN
       IF d[p].kind # "map"
       THEN [dict |-> d, panic |-> TRUE]
       ELSE Walk(d, p, parts, i + 1, value)

\* Faulty variants of the loop, used to show that the properties below depend
\* on it: "fresh" makes a new nested map at every non-final segment,
\* "storeEmpty" stores an empty cell, "replaceLeaf" puts a nested map in the
\* place of a value met on the way, "keepFirst" leaves a leaf already there
RECURSIVE FaultyWalk(_, _, _, _, _, _)
FaultyWalk(dict, current, parts, i, value, fault) ==
  LET p == Append(current, parts[i]) IN
  IF i = Len(parts)
  THEN [dict |-> IF value # <<>> \/ fault = "storeEmpty"
                 THEN IF fault = "keepFirst" /\ p \in DOMAIN dict
                      THEN dict
                      ELSE Assign(dict, p, StringNode(value))
                 ELSE dict,
        panic |-> FALSE]
  ELSE LET d == IF \/ p \notin DOMAIN dict
                   \/ fault = "fresh"
                   \/ (fault = "replaceLeaf" /\ dict[p].kind # "map")
                THEN Assign(dict, p, MapNode)
                ELSE dict IN
       IF d[p].kind # "map"
       THEN [dict |-> d, panic |-> TRUE]
       ELSE FaultyWalk(d, p, parts, i + 1, value, fault)

FaultyBuild(dict, path, value, fault) ==
  IF path = payment_methods \/ path = transfer_methods
  THEN [dict |-> Assign(dict, <<path>>, ListNode(Split(value, Comma))),
        panic |-> FALSE]
  ELSE FaultyWalk(dict, <<>>, Split(path, Dot), 1, value, fault)

buildNestedDictFresh(dict, path, value) == FaultyBuild(dict, path, value, "fresh")
buildNestedDictStoreEmpty(dict, path, value) == FaultyBuild(dict, path, value, "storeEmpty")
buildNestedDictReplaceLeaf(dict, path, value) == FaultyBuild(dict, path, value, "replaceLeaf")
buildNestedDictKeepFirst(dict, path, value) == FaultyBuild(dict, path, value, "keepFirst")

\* the list without its empty pieces
buildNestedDictDropEmpty(dict, path, value) ==
  IF path = payment_methods \/ path = transfer_methods
  THEN [dict |-> Assign(dict, <<path>>,
                        ListNode(SelectSeq(Split(value, Comma), LAMBDA x : x # <<>>))),
        panic |-> FALSE]
  ELSE Walk(dict, <<>>, Split(path, Dot), 1, value)

\* no list element for an empty cell
buildNestedDictEmptyList(dict, path, value) ==
  IF path = payment_methods \/ path = transfer_methods
  THEN [dict |-> Assign(dict, <<path>>,
                        ListNode(IF value = <<>> THEN <<>> ELSE Split(value, Comma))),
        panic |-> FALSE]
  ELSE Walk(dict, <<>>, Split(path, Dot), 1, value)

buildNestedDict(dict, path, value) ==
  IF path = payment_methods \/ path = transfer_methods
  THEN [dict |-> Assign(dict, <<path>>, ListNode(Split(value, Comma))),
        panic |-> FALSE]
  ELSE Walk(dict, <<>>, Split(path, Dot), 1, value)

---------------------------------------------------------------------------
(* The validate and create commands *)

StatusUnauthorized == 401
StatusCreated == 201

AccountNameHeader ==
  <<"beneficiary", ".", "bank_details", ".", "account_name">>

\* header rows of the CSV files given to validate: a well-formed one, and
\* one whose second header walks through the leaf of the first
RunHeaderRows ==
  { <<AccountNameHeader, payment_methods>>,
    << <<"a">>, <<"a", ".", "b">> >> }

RunCellPool == { <<>>, <<"x">> }

\* csv.Reader accepts only records with as many fields as the header row
RunRows(hs) == [1..Len(hs) -> RunCellPool]

\* the loop over the columns of a row, stopping where buildNestedDict panics
RECURSIVE FlattenFrom(_, _, _, _)
FlattenFrom(dict, hs, r, i) ==
  IF i > Len(r) THEN [dict |-> dict, panic |-> FALSE]
  ELSE LET b == buildNestedDict(dict, hs[i], r[i]) IN
       IF b.panic THEN b ELSE FlattenFrom(b.dict, hs, r, i + 1)

Flatten(hs, r) == FlattenFrom(EmptyDict, hs, r, 1)

\* encoding/json on these trees: a map is an object, a string a string,
\* a []string and a []interface{} both an array; an array decoded into an
\* interface{} is a []interface{}
JsonNode(n) ==
  [kind |-> CASE n.kind = "map" -> "object"
              [] n.kind = "string" -> "jstring"
              [] n.kind = "list" -> "array"
              [] n.kind = "ilist" -> "array",
   str |-> n.str, list |-> n.list]

GoNode(j) ==
  [kind |-> CASE j.kind = "object" -> "map"
              [] j.kind = "jstring" -> "string"
              [] j.kind = "array" -> "ilist",
   str |-> j.str, list |-> j.list]

Marshal(dict) == [p \in DOMAIN dict |-> JsonNode(dict[p])]
Unmarshal(json) == [p \in DOMAIN json |-> GoNode(json[p])]

StringAt(dict, p) ==
  IF /\ \A n \in 1..(Len(p) - 1) :
          SubSeq(p, 1, n) \in DOMAIN dict /\ dict[SubSeq(p, 1, n)].kind = "map"
     /\ p \in DOMAIN dict
     /\ dict[p].kind = "string"
  THEN dict[p].str
  ELSE <<>>

getAccountName(dict) ==
  StringAt(dict, << <<"beneficiary">>, <<"bank_details">>, <<"account_name">> >>)

getBankCountry(dict) ==
  StringAt(dict, << <<"beneficiary">>, <<"bank_details">>, <<"bank_country_code">> >>)

\* response bodies: no bytes, bytes that are no JSON, or a JSON object whose
\* members are strings or something else (a number, an object)
Member(t, v) == [type |-> t, val |-> v]
NoMembers == [f \in {} |-> Member("string", "")]
EmptyBody == [kind |-> "empty", members |-> NoMembers]
HtmlBody == [kind |-> "html", members |-> NoMembers]
JsonBody(m) == [kind |-> "json", members |-> m]

ErrorMembers ==
  [f \in {"code", "message"} |->
     IF f = "code" THEN Member("string", "validation_error")
     ELSE Member("string", "invalid")]

CreatedMembers == [f \in {"beneficiary_id"} |-> Member("string", "id-1")]
CreatedNoIdMembers == [f \in {"id"} |-> Member("other", "1")]

\* json.NewDecoder(body).Decode(&result) into a nil map, error ignored
Decode(body) == IF body.kind = "json" THEN body.members ELSE NoMembers

Response(st, b) == [status |-> st, body |-> b]

ValidateResponses ==
  { Response(200, EmptyBody),
    Response(200, JsonBody(NoMembers)),
    Response(400, JsonBody(ErrorMembers)),
    Response(StatusUnauthorized, JsonBody(ErrorMembers)),
    Response(500, EmptyBody),
    Response(502, HtmlBody) }

CreateResponses ==
  { Response(StatusCreated, JsonBody(CreatedMembers)),
    Response(StatusCreated, JsonBody(CreatedNoIdMembers)),
    Response(400, JsonBody(ErrorMembers)),
    Response(500, EmptyBody) }

Request(u, b) == [url |-> u, body |-> b]

\* the orders in which a range over a Go map may visit its keys
Orders(S) ==
  { o \in [1..Cardinality(S) -> S] : \A i, j \in 1..Cardinality(S) : o[i] = o[j] => i = j }

ValidationError(name, r, country, source, message) ==
  [AccountName |-> name, Row |-> r, BankCountry |-> country,
   ErrorSource |-> source, ErrorMessage |-> message, Params |-> ""]

NoResultsFile ==
  [exists |-> FALSE,
   successful |-> [count |-> 0, results |-> <<>>],
   errors |-> [count |-> 0]]

NoErrorsFile == [exists |-> FALSE, records |-> <<>>]

NoCreateResults ==
  [successful |-> [count |-> 0, results |-> <<>>],
   errors |-> [count |-> 0, results |-> <<>>]]

NoCreateFile == [exists |-> FALSE, content |-> NoCreateResults]

\* validate has opened the CSV and read its header row
Init ==
  /\ headers \in RunHeaderRows
  /\ row = <<>>
  /\ payload = EmptyDict
  /\ panicked = FALSE
  /\ pc = "vLoop"
  /\ rowNum = 1
  /\ rowsRead = <<>>
  /\ successfulResults = <<>>
  /\ validationErrors = <<>>
  /\ inflight = <<>>
  /\ requests = <<>>
  /\ responses = <<>>
  /\ resultsFile = NoResultsFile
  /\ errorsFile = NoErrorsFile
  /\ entries = <<>>
  /\ ci = 0
  /\ createResults = NoCreateResults
  /\ createFile = NoCreateFile

Panic ==
  /\ pc' = "panic"
  /\ panicked' = TRUE

\* Faulty variant: the next row is posted without waiting for the response
\* of the row before
VReadRowNoWait ==
  /\ pc \in {"vLoop", "vAwait"}
  /\ Len(rowsRead) < MaxRows
  /\ \E r \in RunRows(headers) :
       LET f == Flatten(headers, r) IN
       /\ row' = r
       /\ rowsRead' = Append(rowsRead, r)
       /\ rowNum' = rowNum + 1
       /\ payload' = f.dict
       /\ IF f.panic
          THEN /\ Panic
               /\ UNCHANGED <<inflight, requests>>
          ELSE /\ pc' = "vAwait"
               /\ panicked' = FALSE
               /\ inflight' = Append(inflight, Request("validate", Marshal(f.dict)))
               /\ requests' = Append(requests, Request("validate", Marshal(f.dict)))
  /\ UNCHANGED <<headers, successfulResults, validationErrors, responses,
                 resultsFile, errorsFile, entries, ci, createResults, createFile>>

\* reader.Read() returns a row: it is flattened and posted to the validate
\* endpoint, and the command waits in client.Do
VReadRow ==
  /\ pc = "vLoop"
  /\ Len(rowsRead) < MaxRows
  /\ \E r \in RunRows(headers) :
       LET f == Flatten(headers, r) IN
       /\ row' = r
       /\ rowsRead' = Append(rowsRead, r)
       /\ rowNum' = rowNum + 1
       /\ payload' = f.dict
       /\ IF f.panic
          THEN /\ Panic
               /\ UNCHANGED <<inflight, requests>>
          ELSE /\ pc' = "vAwait"
               /\ panicked' = FALSE
               /\ inflight' = Append(inflight, Request("validate", Marshal(f.dict)))
               /\ requests' = Append(requests, Request("validate", Marshal(f.dict)))
  /\ UNCHANGED <<headers, successfulResults, validationErrors, responses,
                 resultsFile, errorsFile, entries, ci, createResults, createFile>>

\* reader.Read() fails on a malformed record
VReadError ==
  /\ pc = "vLoop"
  /\ Panic
  /\ UNCHANGED <<headers, row, payload, rowNum, rowsRead, successfulResults,
                 validationErrors, inflight, requests, responses, resultsFile,
                 errorsFile, entries, ci, createResults, createFile>>

\* client.Do fails: no response
VTransportError ==
  /\ pc = "vAwait"
  /\ Panic
  /\ inflight' = <<>>
  /\ UNCHANGED <<headers, row, payload, rowNum, rowsRead, successfulResults,
                 validationErrors, requests, responses, resultsFile,
                 errorsFile, entries, ci, createResults, createFile>>

ErrorsOf(result, order) ==
  [k \in 1..Len(order) |->
     ValidationError(getAccountName(payload), rowNum, getBankCountry(payload),
                     order[k], result[order[k]].val)]

\* Faulty variant: no continue after the 401 branch
OutcomeNoContinue(resp, order) ==
  LET result == Decode(resp.body)
      errs == IF resp.status = StatusUnauthorized
              THEN Append(validationErrors,
                          ValidationError(getAccountName(payload), rowNum,
                                          getBankCountry(payload),
                                          "Unauthorized", "Unauthorized"))
              ELSE validationErrors
  IN
  IF DOMAIN result = {}
  THEN [successful |-> Append(successfulResults, payload), errors |-> errs]
  ELSE [successful |-> successfulResults, errors |-> errs \o ErrorsOf(result, order)]

\* the outcome of a row once its response is decoded
Outcome(resp, order) ==
  LET result == Decode(resp.body) IN
  IF resp.status = StatusUnauthorized
  THEN [successful |-> successfulResults,
        errors |-> Append(validationErrors,
                          ValidationError(getAccountName(payload), rowNum,
                                          getBankCountry(payload),
                                          "Unauthorized", "Unauthorized"))]
  ELSE IF DOMAIN result = {}
  THEN [successful |-> Append(successfulResults, payload),
        errors |-> validationErrors]
  ELSE [successful |-> successfulResults,
        errors |-> validationErrors \o ErrorsOf(result, order)]

\* client.Do returns the response of the row in hand
VResponse ==
  /\ pc = "vAwait"
  /\ \E resp \in ValidateResponses :
       \E order \in Orders(DOMAIN Decode(resp.body)) :
         /\ responses' = Append(responses, resp)
         /\ successfulResults' = Outcome(resp, order).successful
         /\ validationErrors' = Outcome(resp, order).errors
  /\ inflight' = <<>>
  /\ pc' = "vLoop"
  /\ UNCHANGED <<headers, row, payload, panicked, rowNum, rowsRead, requests,
                 resultsFile, errorsFile, entries, ci, createResults, createFile>>

ErrorRecord(e) ==
  <<e.AccountName, e.Row, e.BankCountry, e.ErrorSource, e.ErrorMessage, e.Params>>

\* reader.Read() returns io.EOF: the results and the errors are written
VFinish ==
  /\ pc = "vLoop"
  /\ resultsFile' =
       [exists |-> TRUE,
        successful |-> [count |-> Len(successfulResults),
                        results |-> [k \in 1..Len(successfulResults) |->
                                       Marshal(successfulResults[k])]],
        errors |-> [count |-> Len(validationErrors)]]
  /\ errorsFile' =
       [exists |-> TRUE,
        records |-> [k \in 1..Len(validationErrors) |-> ErrorRecord(validationErrors[k])]]
  /\ pc' = "vDone"
  /\ UNCHANGED <<headers, row, payload, panicked, rowNum, rowsRead,
                 successfulResults, validationErrors, inflight, requests,
                 responses, entries, ci, createResults, createFile>>

\* the create command starts: it reads and parses validation_results.json
CStart ==
  /\ pc = "vDone"
  /\ resultsFile.exists
  /\ entries' = [k \in 1..Len(resultsFile.successful.results) |->
                   Unmarshal(resultsFile.successful.results[k])]
  /\ ci' = 0
  /\ createResults' = NoCreateResults
  /\ pc' = "cLoop"
  /\ UNCHANGED <<headers, row, payload, panicked, rowNum, rowsRead,
                 successfulResults, validationErrors, inflight, requests,
                 responses, resultsFile, errorsFile, createFile>>

\* the next entry is posted to the create endpoint
CSend ==
  /\ pc = "cLoop"
  /\ ci < Len(entries)
  /\ inflight' = Append(inflight, Request("create", Marshal(entries[ci + 1])))
  /\ requests' = Append(requests, Request("create", Marshal(entries[ci + 1])))
  /\ pc' = "cAwait"
  /\ UNCHANGED <<headers, row, payload, panicked, rowNum, rowsRead,
                 successfulResults, validationErrors, responses, resultsFile,
                 errorsFile, entries, ci, createResults, createFile>>

CTransportError ==
  /\ pc = "cAwait"
  /\ Panic
  /\ inflight' = <<>>
  /\ UNCHANGED <<headers, row, payload, rowNum, rowsRead, successfulResults,
                 validationErrors, requests, responses, resultsFile,
                 errorsFile, entries, ci, createResults, createFile>>

HasStringId(createResp) ==
  "beneficiary_id" \in DOMAIN createResp /\ createResp["beneficiary_id"].type = "string"

\* Faulty variant: a failed entry is listed but not counted
CreatedErrorNotCounted(results, entry, i, resp) ==
  LET createResp == Decode(resp.body) IN
  IF resp.status = StatusCreated
  THEN [results EXCEPT
          !.successful.count = @ + 1,
          !.successful.results =
             IF HasStringId(createResp)
             THEN Append(@, [Name |-> getAccountName(entry), Row |-> i + 1,
                             ID |-> createResp["beneficiary_id"].val])
             ELSE @]
  ELSE [results EXCEPT
          !.errors.results = Append(@, [Name |-> getAccountName(entry),
                                        Data |-> createResp])]

\* createResults after the response to entry number i (from 0)
Created(results, entry, i, resp) ==
  LET createResp == Decode(resp.body) IN
  IF resp.status = StatusCreated
  THEN [results EXCEPT
          !.successful.count = @ + 1,
          !.successful.results =
             IF HasStringId(createResp)
             THEN Append(@, [Name |-> getAccountName(entry), Row |-> i + 1,
                             ID |-> createResp["beneficiary_id"].val])
             ELSE @]
  ELSE [results EXCEPT
          !.errors.count = @ + 1,
          !.errors.results = Append(@, [Name |-> getAccountName(entry),
                                        Data |-> createResp])]

\* client.Do returns the response of the entry in hand
CResponse ==
  /\ pc = "cAwait"
  /\ \E resp \in CreateResponses :
       /\ responses' = Append(responses, resp)
       /\ createResults' = Created(createResults, entries[ci + 1], ci, resp)
       /\ IF resp.status = StatusCreated /\ ~HasStringId(Decode(resp.body))
          THEN Panic /\ ci' = ci
          ELSE pc' = "cLoop" /\ panicked' = FALSE /\ ci' = ci + 1
  /\ inflight' = <<>>
  /\ UNCHANGED <<headers, row, payload, rowNum, rowsRead, successfulResults,
                 validationErrors, requests, resultsFile, errorsFile, entries,
                 createFile>>

\* every entry is done: beneficiary_create_result.json is written
CFinish ==
  /\ pc = "cLoop"
  /\ ci = Len(entries)
  /\ createFile' = [exists |-> TRUE, content |-> createResults]
  /\ pc' = "cDone"
  /\ UNCHANGED <<headers, row, payload, panicked, rowNum, rowsRead,
                 successfulResults, validationErrors, inflight, requests,
                 responses, resultsFile, errorsFile, entries, ci, createResults>>

Next ==
  \/ VReadRow
  \/ VReadError
  \/ VTransportError
  \/ VResponse
  \/ VFinish
  \/ CStart
  \/ CSend
  \/ CTransportError
  \/ CResponse
  \/ CFinish

Spec == Init /\ [][Next]_vars

---------------------------------------------------------------------------
(* The flattener on its own: one call of buildNestedDict per column *)

HeaderPool ==
  { <<"a">>, <<"a", ".", "b">>, <<"a", ".", "c">>, <<"a", ".", "b", ".", "c">>,
    payment_methods, transfer_methods, <<"payment_methods", ".", "a">> }

CellPool ==
  { <<>>, <<"x">>, <<"y">>, <<"bank", ",", "card">>, <<",">> }

FlatInit ==
  /\ headers = <<>>
  /\ row = <<>>
  /\ payload = EmptyDict
  /\ panicked = FALSE
  /\ pc = "flatten"
  /\ rowNum = 1
  /\ rowsRead = <<>>
  /\ successfulResults = <<>>
  /\ validationErrors = <<>>
  /\ inflight = <<>>
  /\ requests = <<>>
  /\ responses = <<>>
  /\ resultsFile = NoResultsFile
  /\ errorsFile = NoErrorsFile
  /\ entries = <<>>
  /\ ci = 0
  /\ createResults = NoCreateResults
  /\ createFile = NoCreateFile

\* one iteration of the loop over the columns of a row
FlattenPair ==
  /\ ~panicked
  /\ Len(headers) < MaxCols
  /\ \E h \in HeaderPool, v \in CellPool :
       LET r == buildNestedDict(payload, h, v) IN
       /\ headers' = Append(headers, h)
       /\ row' = Append(row, v)
       /\ payload' = r.dict
       /\ panicked' = r.panic
  /\ UNCHANGED runVars

FlatNext == FlattenPair

SpecFlat == FlatInit /\ [][FlatNext]_vars

---------------------------------------------------------------------------
(* Vocabulary of the flattener's properties *)

Reserved(h) == h = payment_methods \/ h = transfer_methods

\* the key path a header addresses
HPath(h) == IF Reserved(h) THEN <<h>> ELSE Split(h, Dot)

ProperPrefix(p, q) == IsPrefix(p, q) /\ Len(p) < Len(q)

Cols == 1..Len(headers)

\* column j stores a value: a list header always does, another one only
\* for a non-empty cell
Writes(j) == Reserved(headers[j]) \/ row[j] # <<>>

\* the non-empty proper prefixes of a path: its non-final positions
Intermediates(p) == { SubSeq(p, 1, n) : n \in 1..(Len(p) - 1) }

RECURSIVE Join(_, _)
Join(l, sep) ==
  IF Len(l) = 0 THEN <<>>
  ELSE IF Len(l) = 1 THEN l[1]
  ELSE l[1] \o <<sep>> \o Join(Tail(l), sep)

CountOf(s, sep) == Cardinality({k \in 1..Len(s) : s[k] = sep})

\* the step just taken flattened the pair (h, v)
Flattened(h, v) == headers' = Append(headers, h) /\ row' = Append(row, v)

LastHeader == headers[Len(headers)]
LastCell == row[Len(row)]

\* {"a": {"b": x}} and the like, written out
Dict1(k1, n1) == [p \in {<<k1>>} |-> n1]
Dict2(k1, k2, n2) ==
  [p \in {<<k1>>, <<k1, k2>>} |-> IF p = <<k1>> THEN MapNode ELSE n2]

---------------------------------------------------------------------------
(* C1: for a header list with no list header and no header path equal to  *)
(* or a proper dotted prefix of another, and a row of non-empty cells,    *)
(* the flattened record has, for every header, a string leaf equal to the *)
(* header's cell at the end of the header's segments, every position      *)
(* above it is a nested record, and the record holds nothing else.        *)

C1_Precondition ==
  /\ \A i \in Cols : ~Reserved(headers[i]) /\ row[i] # <<>>
  /\ \A i, j \in Cols : i # j => ~IsPrefix(HPath(headers[i]), HPath(headers[j]))

C1_LeafPerHeader ==
  C1_Precondition =>
    /\ ~panicked
    /\ \A i \in Cols :
         /\ HPath(headers[i]) \in DOMAIN payload
         /\ payload[HPath(headers[i])] = StringNode(row[i])
         /\ \A q \in Intermediates(HPath(headers[i])) :
              q \in DOMAIN payload /\ payload[q] = MapNode
    /\ \A p \in DOMAIN payload :
         \E i \in Cols : p = HPath(headers[i]) \/ p \in Intermediates(HPath(headers[i]))

C1_Witness ==
  /\ headers = << <<"a", ".", "b">>, <<"a", ".", "c">> >>
  /\ row = << <<"x">>, <<"y">> >>
  /\ DOMAIN payload = { <<(<<"a">>)>>, << <<"a">>, <<"b">> >>, << <<"a">>, <<"c">> >> }
  /\ payload[<< <<"a">>, <<"b">> >>] = StringNode(<<"x">>)
  /\ payload[<< <<"a">>, <<"c">> >>] = StringNode(<<"y">>)

---------------------------------------------------------------------------
(* C2 as stated: for a header that is no list header, an empty cell adds  *)
(* no key at all; a single column with an empty cell leaves the fresh     *)
(* record empty.                                                          *)

C2_EmptyCellAddsNoKey ==
  (Len(headers) = 1 /\ ~Reserved(headers[1]) /\ row[1] = <<>>) => payload = EmptyDict

(* C2 amended: an empty cell under a header that is no list header stores *)
(* no leaf and changes no value already in the record, but the nested     *)
(* records missing on the way to the final segment are still created, so  *)
(* headers ["a.b"] with row [""] give {"a": {}}.                          *)

C2_EmptyCellAddsNoLeaf ==
  [][\A h \in HeaderPool :
       (Flattened(h, <<>>) /\ ~Reserved(h)) =>
         /\ \A p \in DOMAIN payload : p \in DOMAIN payload' /\ payload'[p] = payload[p]
         /\ \A p \in (DOMAIN payload') \ (DOMAIN payload) :
              p \in Intermediates(HPath(h)) /\ payload'[p] = MapNode
         /\ ~panicked' =>
              \A q \in Intermediates(HPath(h)) :
                q \in DOMAIN payload' /\ payload'[q] = MapNode
    ]_vars

C2_Witness ==
  /\ headers = << <<"a", ".", "b">> >>
  /\ row = << <<>> >>
  /\ payload = Dict1(<<"a">>, MapNode)

---------------------------------------------------------------------------
(* C3 as stated: after flattening any header list with any row, every     *)
(* non-final position of a processed header path holds a nested record.   *)

IntermediatesAreMaps ==
  \A i \in Cols : \A q \in Intermediates(HPath(headers[i])) :
    q \in DOMAIN payload /\ payload[q].kind = "map"

C3_IntermediatesNeverOverwritten == ~panicked => IntermediatesAreMaps

(* C3 amended: the flattening completes with every non-final position of  *)
(* a processed header path holding a nested record exactly when no header *)
(* that is a proper dotted prefix of another header stores a value (has a *)
(* non-empty cell or is a list header); when one does, its leaf replaces  *)
(* the nested record or the walk through the leaf panics.                 *)

PrefixCollision ==
  \E i, j \in Cols :
    ProperPrefix(HPath(headers[j]), HPath(headers[i])) /\ Writes(j)

C3_IntermediatesUnlessPrefixWrites ==
  (~panicked /\ IntermediatesAreMaps) <=> ~PrefixCollision

C3_Witness ==
  /\ headers = << <<"a", ".", "b">>, <<"a">> >>
  /\ row = << <<"x">>, <<"y">> >>
  /\ payload = Dict1(<<"a">>, StringNode(<<"y">>))

---------------------------------------------------------------------------
(* C4: for a header equal to payment_methods or transfer_methods the      *)
(* record holds under that top-level key the list of the pieces of the    *)
(* cell between its commas, untrimmed and in order: joined with commas    *)
(* they give the cell back, and there is one more of them than commas.    *)

C4_ListIsCommaSplit ==
  [][\A h \in HeaderPool, v \in CellPool :
       (Flattened(h, v) /\ Reserved(h)) =>
         /\ ~panicked'
         /\ <<h>> \in DOMAIN payload'
         /\ payload'[<<h>>].kind = "list"
         /\ LET l == payload'[<<h>>].list IN
            /\ Len(l) = CountOf(v, Comma) + 1
            /\ Join(l, Comma) = v
            /\ \A n \in 1..Len(l) : CountOf(l[n], Comma) = 0
         /\ \A p \in DOMAIN payload' : ~ProperPrefix(<<h>>, p)
    ]_vars

C4_Witness ==
  /\ headers = << payment_methods >>
  /\ row = << <<"bank", ",", "card">> >>
  /\ payload = Dict1(payment_methods, ListNode(<< <<"bank">>, <<"card">> >>))

---------------------------------------------------------------------------
(* C5 as stated: an empty cell under payment_methods or transfer_methods  *)
(* stores an empty list.                                                  *)

C5_EmptyCellGivesEmptyList ==
  (Len(headers) > 0 /\ Reserved(LastHeader) /\ LastCell = <<>>) =>
    payload[<<LastHeader>>] = ListNode(<<>>)

(* C5 amended: an empty cell under payment_methods or transfer_methods    *)
(* stores a list of one element, the empty string.                        *)

C5_EmptyCellGivesOneEmptyString ==
  (Len(headers) > 0 /\ Reserved(LastHeader) /\ LastCell = <<>>) =>
    payload[<<LastHeader>>] = ListNode(<< <<>> >>)

C5_Witness ==
  /\ headers = << transfer_methods >>
  /\ row = << <<>> >>
  /\ payload = Dict1(transfer_methods, ListNode(<< <<>> >>))

---------------------------------------------------------------------------
(* C6 as stated: when a header that is no list header names more than one *)
(* column, the leaf at its path holds the cell of the last of those       *)
(* columns with a non-empty cell.                                         *)

ColsOf(h) == { i \in Cols : headers[i] = h }
WritingColsOf(h) == { i \in ColsOf(h) : row[i] # <<>> }
Last(S) == CHOOSE i \in S : \A j \in S : j <= i

LastWriteWinsFor(h) ==
  /\ HPath(h) \in DOMAIN payload
  /\ payload[HPath(h)] = StringNode(row[Last(WritingColsOf(h))])

C6_LastWriteWins ==
  ~panicked =>
    \A h \in HeaderPool :
      (~Reserved(h) /\ Cardinality(ColsOf(h)) > 1 /\ WritingColsOf(h) # {}) =>
        LastWriteWinsFor(h)

(* C6 amended: the same, provided no header that is a proper dotted       *)
(* prefix of the repeated path stores a value in a column after the last  *)
(* column of the repeated header; such a later value replaces the nested  *)
(* record that held the leaf (["a.b","a.b","a"] with ["x","y","z"] gives  *)
(* {"a": "z"}).                                                           *)

OverwrittenFromAbove(h) ==
  \E j \in Cols :
    /\ j > Last(ColsOf(h))
    /\ ProperPrefix(HPath(headers[j]), HPath(h))
    /\ Writes(j)

C6_LastWriteWinsUnlessPrefixWrites ==
  ~panicked =>
    \A h \in HeaderPool :
      (~Reserved(h) /\ Cardinality(ColsOf(h)) > 1 /\ WritingColsOf(h) # {}
         /\ ~OverwrittenFromAbove(h)) =>
        LastWriteWinsFor(h)

C6_Witness ==
  /\ headers = << <<"a", ".", "b">>, <<"a", ".", "b">> >>
  /\ row = << <<"x">>, <<"y">> >>
  /\ payload = Dict2(<<"a">>, <<"b">>, StringNode(<<"y">>))

---------------------------------------------------------------------------
(* Vocabulary of the commands' properties *)

ValidateReqs == SelectSeq(requests, LAMBDA q : q.url = "validate")
CreateReqs == SelectSeq(requests, LAMBDA q : q.url = "create")

\* the increasing enumeration of a set of numbers
SortedSeq(S) ==
  CHOOSE s \in [1..Cardinality(S) -> S] :
    \A i, j \in 1..Cardinality(S) : i < j => s[i] < s[j]

\* data row k (from 1) is row k + 1 of the file, the header row being row 1
DataRows == 1..Len(rowsRead)
ErrorsOfRow(k) == { e \in 1..Len(validationErrors) : validationErrors[e].Row = k + 1 }
RowsWithoutError == { k \in DataRows : ErrorsOfRow(k) = {} }

\* the responses of the create endpoint: those after the validate run's
CreateResp(k) == responses[Len(rowsRead) + k]

Accepted(resp) == resp.status \in 200..299

---------------------------------------------------------------------------
(* C7: in validate and in create at most one remote call is outstanding,  *)
(* a request is sent only when every earlier one has been answered and    *)
(* its answer recorded, and the requests follow the order of the rows of  *)
(* the CSV (validate) and of the entries of successful.results (create).  *)

C7_OneCallAtATimeInOrder ==
  /\ Len(inflight) <= 1
  /\ inflight # <<>> => inflight[1] = requests[Len(requests)]
  /\ ~panicked => Len(requests) = Len(responses) + Len(inflight)
  /\ requests = ValidateReqs \o CreateReqs
  /\ Len(ValidateReqs) <= Len(rowsRead)
  /\ ~panicked => Len(ValidateReqs) = Len(rowsRead)
  /\ \A k \in 1..Len(ValidateReqs) :
       ValidateReqs[k].body = Marshal(Flatten(headers, rowsRead[k]).dict)
  /\ Len(CreateReqs) <= Len(resultsFile.successful.results)
  /\ \A k \in 1..Len(CreateReqs) :
       CreateReqs[k].body = resultsFile.successful.results[k]

C7_Witness ==
  /\ pc = "cAwait"
  /\ Len(rowsRead) = 2
  /\ Len(CreateReqs) = 2
  /\ Len(inflight) = 1
  /\ inflight[1].url = "create"

---------------------------------------------------------------------------
(* C8: a row is recorded as successful only when the validate endpoint    *)
(* accepted it: whenever a record is added to the successful results, the *)
(* response just received carries a success status.                       *)

C8_SuccessfulOnlyIfAccepted ==
  [][Len(successfulResults') > Len(successfulResults) =>
       Accepted(responses'[Len(responses')])]_vars

---------------------------------------------------------------------------
(* C9: when create completes it has sent one request per entry of         *)
(* successful.results, in list order, with the entry as the body; the     *)
(* entries answered with status 201 are the successful ones, the others   *)
(* the errors; the two counts add up to the number of entries and each    *)
(* count is the length of its list.                                       *)

C9_OneRequestAndOneOutcomePerEntry ==
  pc = "cDone" =>
    LET n == Len(resultsFile.successful.results)
        cr == createFile.content
        created == { k \in 1..n : CreateResp(k).status = StatusCreated }
    IN
    /\ createFile.exists
    /\ Len(CreateReqs) = n
    /\ \A k \in 1..n : CreateReqs[k].body = resultsFile.successful.results[k]
    /\ cr.successful.count + cr.errors.count = n
    /\ cr.successful.count = Len(cr.successful.results)
    /\ cr.errors.count = Len(cr.errors.results)
    /\ cr.successful.count = Cardinality(created)
    /\ \A i \in 1..Len(cr.successful.results) :
         cr.successful.results[i].Row = SortedSeq(created)[i]

C9_Witness ==
  /\ pc = "cDone"
  /\ Len(resultsFile.successful.results) = 2
  /\ createFile.content.successful.count = 1
  /\ createFile.content.errors.count = 1

---------------------------------------------------------------------------
(* C10: after validate has processed its rows, a row without error entry  *)
(* is exactly once among the successful results, in file order, and a row *)
(* with an error entry is not among them; every error entry carries the   *)
(* number of a row read; a 401 gives the row exactly one error entry; the *)
(* written counts are the number of successful rows and of error entries. *)

C10_RowsPartitioned ==
  (~panicked /\ pc # "vAwait") =>
    /\ Len(successfulResults) = Cardinality(RowsWithoutError)
    /\ \A i \in 1..Len(successfulResults) :
         successfulResults[i] =
           Flatten(headers, rowsRead[SortedSeq(RowsWithoutError)[i]]).dict
    /\ \A e \in 1..Len(validationErrors) : validationErrors[e].Row - 1 \in DataRows
    /\ \A k \in DataRows :
         responses[k].status = StatusUnauthorized => Cardinality(ErrorsOfRow(k)) = 1
    /\ resultsFile.exists =>
         /\ resultsFile.successful.count = Cardinality(RowsWithoutError)
         /\ resultsFile.successful.count = Len(resultsFile.successful.results)
         /\ resultsFile.errors.count = Len(validationErrors)

C10_Witness ==
  /\ pc = "vDone"
  /\ Len(rowsRead) = 2
  /\ responses[1].status = StatusUnauthorized
  /\ Len(successfulResults) = 1
  /\ resultsFile.successful.count = 1
  /\ resultsFile.errors.count = 1

====
